---- MODULE Spec2Model ----
(***************************************************************************)
(* A model of src/wrapped.ts: the typed wrapper classes over the LLVM C    *)
(* API.  Wrapper objects hold one native handle in their `ref` field; the  *)
(* native library is modelled as a heap of resources behind those handles. *)
(***************************************************************************)
EXTENDS Naturals, Integers, Sequences, FiniteSets, TLC

\* ------------------------------------------------------------------ bounds
MaxObjs    == 2   \* Module / Builder wrapper objects ever created
MaxHandles == 2   \* native addresses available for modules and builders
MaxCtx     == 1   \* Context wrappers the caller has at hand
MaxFuncs   == 2   \* native functions alive at once
MaxBlocks  == 2   \* native basic blocks alive at once
MaxInstrs  == 3   \* native instructions alive at once
MaxElems   == 3   \* element types of one struct
MaxStructs == 1   \* struct types made
MaxCalls   == 3   \* Target.getFromTriple calls made

\* `this.ref = null`
Null == 0

Handles  == 1..MaxHandles
ObjIds   == 1..MaxObjs
CtxRefs  == 1..MaxCtx
FnIds    == 1..MaxFuncs
BlkIds   == 1..MaxBlocks
InstrIds == 1..MaxInstrs
StructIds == 1..MaxStructs

\* Function names the caller uses, and the function types it has built.
BaseNames  == {"f", "g"}
FnTypeRefs == {"i32(i32)", "void()"}

\* The element types the caller has built.
TypeRefs == {"i32", "double"}

\* A symbol name: the name asked for and the suffix the native symbol table
\* appended to keep it unique in its module (0: none).
Name(base, n) == [base |-> base, n |-> n]

NoName == Name("", 0)

CallerNames == {Name(b, 0) : b \in BaseNames}

\* ----------------------------------------------------------------- values
\* A wrapper object (class Ref): its class and the handle in its ref field.
Wrap(cls, h) == [tag |-> cls, ref |-> h]

\* A bare native handle, as the FFI marshals it.
Raw(h) == [tag |-> "handle", ref |-> h]

\* The absent optional argument (`ctx?` omitted): undefined.
Undefined == [tag |-> "undefined", ref |-> Null]

\* No return value (`void`).
Void == [tag |-> "void", ref |-> Null]

\* Context.create(): a Context wrapper around a native context handle.
Context_create(c) == Wrap("Context", c)

CtxArgs == {Undefined} \cup {Context_create(c) : c \in CtxRefs}

\* JavaScript truthiness of an optional object argument (`ctx ? a : b`).
Truthy(v) == v.tag # "undefined"

VARIABLES
    objs,      \* the Module / Builder wrapper objects, by identity
    heap,      \* the native library's modules and builders, by handle
    fnTab,     \* the native functions, by handle
    blkTab,    \* the native basic blocks, by handle
    runs,      \* per builder: the block as it was when last positioned, and
               \* the instructions built since
    lastCall,  \* the latest wrapper operation and the native call it made
    structs,   \* the native struct types, by handle
    gen,       \* the types() generator object the caller iterates
    x86,       \* whether initX86Target() has registered the X86 backend
    targetLog  \* what each Target.getFromTriple call did

vars == <<objs, heap, fnTab, blkTab, runs, lastCall, structs, gen, x86, targetLog>>

irVars == <<fnTab, blkTab, runs>>

handleVars == <<objs, heap, fnTab, blkTab, runs>>

typeVars == <<structs, gen>>

targetVars == <<x86, targetLog>>

\* ------------------------------------------------------- the native heap
\* A builder's cell also holds its insertion point: the block, and the
\* instruction it inserts before (Null: the end of the block).
\* `dead`: the block it pointed into has been destroyed.
FreeCell == [kind |-> "free", ctx |-> "none", blk |-> Null, before |-> Null,
             dead |-> FALSE]

\* Wrapper slot not yet constructed.
NoObj == [cls |-> "none", ref |-> Null, own |-> Null, held |-> FALSE,
          registered |-> FALSE, finalized |-> FALSE, disposes |-> 0, freed |-> FALSE]

\* The context a native create call puts its resource in: the default
\* (global) context, the context whose handle it received, or, when what it
\* received was not a handle at all, whatever the marshalled bytes denote.
NativeCtxOf(arg) ==
    IF arg.tag = "undefined" THEN "global"
    ELSE IF arg.tag = "handle" THEN "ctx"
    ELSE "garbage"

\* LLVMModuleCreateWithName / LLVMModuleCreateWithNameInContext,
\* LLVMCreateBuilder / LLVMCreateBuilderInContext: a new resource at h.
NativeCreate(hp, h, kind, arg) ==
    [hp EXCEPT ![h] = [kind |-> kind, ctx |-> NativeCtxOf(arg),
                       blk |-> Null, before |-> Null, dead |-> FALSE]]

\* LLVMDisposeModule / LLVMDisposeBuilder: releases the resource at h.
\* A null handle releases nothing.
NativeDispose(hp, h) ==
    IF h # Null THEN [hp EXCEPT ![h] = FreeCell] ELSE hp

\* -------------------------------------------------- the native IR
NoFn == [live |-> FALSE, mod |-> Null, name |-> NoName, type |-> "none",
         blocks |-> <<>>]

NoBlk == [live |-> FALSE, fn |-> Null, instrs |-> <<>>]

NoRun == [blk |-> Null, base |-> <<>>, at |-> 0, built |-> <<>>]

Range(seq) == {seq[k] : k \in 1..Len(seq)}

\* The functions of module m.
FnsOf(ft, m) == {f \in FnIds : ft[f].live /\ ft[f].mod = m}

\* The functions of module m called name.
Named(ft, m, name) == {f \in FnsOf(ft, m) : ft[f].name = name}

\* The instructions that exist: those of the living blocks.
LiveInstrs(bt) == UNION {Range(bt[b].instrs) : b \in {c \in BlkIds : bt[c].live}}

\* The block an instruction is in.
BlockOf(bt, i) == CHOOSE b \in BlkIds : bt[b].live /\ i \in Range(bt[b].instrs)

\* The place of instruction i in a sequence that holds it.
IndexOf(seq, i) == CHOOSE k \in 1..Len(seq) : seq[k] = i

\* seq with i inserted so that it becomes its k-th element.
InsertAt(seq, k, i) == SubSeq(seq, 1, k - 1) \o <<i>> \o SubSeq(seq, k, Len(seq))

\* LLVMGetNamedFunction(m, name): the function of m with that name, or null.
LLVMGetNamedFunction(ft, m, name) ==
    IF Named(ft, m, name) = {} THEN Null ELSE CHOOSE f \in Named(ft, m, name) : TRUE

\* The name a new symbol gets in m: the one asked for, or, when it is taken,
\* that name with the first free numeric suffix.
UniqueName(ft, m, name) ==
    IF Named(ft, m, name) = {} THEN name
    ELSE Name(name.base,
              CHOOSE k \in 1..(MaxFuncs + 1) :
                  /\ Named(ft, m, Name(name.base, k)) = {}
                  /\ \A j \in 1..(k - 1) : Named(ft, m, Name(name.base, j)) # {})

\* LLVMAddFunction(m, name, type): a new function f in module m.
LLVMAddFunction(ft, f, m, name, type) ==
    [ft EXCEPT ![f] = [live |-> TRUE, mod |-> m, name |-> UniqueName(ft, m, name),
                       type |-> type, blocks |-> <<>>]]

\* LLVMDeleteFunction(f): f leaves its module; its blocks die with it.
LLVMDeleteFunction_fns(ft, f) == [ft EXCEPT ![f] = NoFn]

LLVMDeleteFunction_blks(bt, f) ==
    [b \in BlkIds |-> IF bt[b].live /\ bt[b].fn = f THEN NoBlk ELSE bt[b]]

\* LLVMAppendBasicBlock(f, name): a new empty block b, last in f.
LLVMAppendBasicBlock_fns(ft, f, b) == [ft EXCEPT ![f].blocks = Append(@, b)]

LLVMAppendBasicBlock_blks(bt, f, b) ==
    [bt EXCEPT ![b] = [live |-> TRUE, fn |-> f, instrs |-> <<>>]]

\* What LLVMDisposeModule(m) does to the IR: the module's functions and
\* their blocks die with it.
DisposedFns(ft, m) == [f \in FnIds |-> IF f \in FnsOf(ft, m) THEN NoFn ELSE ft[f]]

DisposedBlks(ft, bt, m) ==
    [b \in BlkIds |-> IF bt[b].live /\ bt[b].fn \in FnsOf(ft, m) THEN NoBlk ELSE bt[b]]

\* The builders whose block is no more are left with a dangling insertion
\* point.
Orphaned(hp, bt) ==
    [h \in Handles |->
        IF hp[h].kind = "Builder" /\ hp[h].blk # Null /\ ~bt[hp[h].blk].live
        THEN [hp[h] EXCEPT !.dead = TRUE] ELSE hp[h]]

\* A builder is positioned when its insertion point is in a living block.
Positioned(hp, bt, h) ==
    /\ hp[h].blk # Null /\ ~hp[h].dead
    /\ bt[hp[h].blk].live
    /\ hp[h].before # Null => hp[h].before \in Range(bt[hp[h].blk].instrs)

\* LLVMPositionBuilderAtEnd(builder, block)
LLVMPositionBuilderAtEnd(hp, h, b) ==
    [hp EXCEPT ![h].blk = b, ![h].before = Null, ![h].dead = FALSE]

\* LLVMPositionBuilderBefore(builder, instr)
LLVMPositionBuilderBefore(hp, bt, h, i) ==
    [hp EXCEPT ![h].blk = BlockOf(bt, i), ![h].before = i, ![h].dead = FALSE]

\* LLVMPositionBuilder(builder, block, instr): the insertion point is put in
\* block in front of instr.  With an instr that is not in block the
\* builder is left with an insertion point that is in no block.
LLVMPositionBuilder(hp, bt, h, b, i) ==
    IF i \in Range(bt[b].instrs)
    THEN [hp EXCEPT ![h].blk = b, ![h].before = i, ![h].dead = FALSE]
    ELSE [hp EXCEPT ![h].dead = TRUE]

\* LLVMGetInsertBlock(builder)
LLVMGetInsertBlock(hp, h) == hp[h].blk

\* LLVMBuild*(builder, ...): the new instruction i goes in at the builder's
\* insertion point, which stays just behind it.
LLVMBuild(hp, bt, h, i) ==
    LET b   == hp[h].blk
        seq == bt[b].instrs
        k   == IF hp[h].before = Null THEN Len(seq) + 1 ELSE IndexOf(seq, hp[h].before)
    IN  [bt EXCEPT ![b].instrs = InsertAt(seq, k, i)]

\* The native allocator hands out the first handle not in use.
FirstFree(ids, used) == CHOOSE i \in ids \ used : \A j \in ids \ used : i <= j

\* One wrapper operation: the method, the wrapper it ran on, the native
\* function it called with the handle (or object) it passed first, whether
\* the wrapper raised, and what it gave back to the caller.
\* `wasNull`: the wrapper's ref was null when the method was called.
\* `native` is "undefined" when the native call was outside the library's
\* contract (a null or dead handle).  `vref`: the handle a native build call
\* returned.  For getOrInsertFunction: the name and type asked for, whether
\* LLVMAddFunction was called, and, when the call repeats the one before it,
\* the handle that one returned.
NoCall ==
    [op |-> "none", obj |-> 0, input |-> Undefined, fn |-> "none",
     arg |-> Undefined, thrown |-> FALSE, result |-> Void, native |-> "ok",
     wasNull |-> FALSE, vref |-> Null, name |-> NoName, type |-> "none",
     added |-> FALSE, again |-> FALSE, prevRef |-> Null]

Call(op, o, input, fn, arg, thrown, result) ==
    [NoCall EXCEPT !.op = op, !.obj = o, !.input = input, !.fn = fn,
                   !.arg = arg, !.thrown = thrown, !.result = result,
                   !.wasNull = (o \in ObjIds /\ objs[o].cls # "none"
                                /\ objs[o].ref = Null)]

\* ------------------------------------------------------------ Module
\* Module.create line 89: the value handed to the native create call.
Module_create_ctxArg(ctx) == ctx

\* Builder.create line 559: the value handed to the native create call.
Builder_create_ctxArg(ctx) == ctx

\* ConstString.createInContext line 473: the context is passed as its handle.
ConstString_createInContext_ctxArg(context) == Raw(context.ref)

\* finalize(obj, callback) from ./finalize: registers callback to run once
\* obj has been garbage collected.
finalize(w) == [w EXCEPT !.registered = TRUE]

\* new Module(modref) / new Builder(bref), held by the caller.
NewObj(cls, h) ==
    [cls |-> cls, ref |-> h, own |-> h, held |-> TRUE, registered |-> FALSE,
     finalized |-> FALSE, disposes |-> 0, freed |-> FALSE]

\* The next wrapper identity.
FreshObj(o) == objs[o].cls = "none" /\ \A p \in ObjIds : p < o => objs[p].cls # "none"

\* The FFI refuses an argument that is no handle (a TypeError in the
\* caller), or marshals it as it is: both are outcomes of the build.
Marshalled(arg) == IF arg.tag \in {"handle", "undefined"} THEN {FALSE} ELSE {FALSE, TRUE}

\* Module.create lines 92-94: finalize(mod, function () { mod.free(); }).
Module_create_noFinalizer(w) == w

Module_create_finalizer(w) == finalize(w)

\* Builder.create lines 562-564: finalize(builder, function () { builder.free(); }).
Builder_create_finalizer(w) == finalize(w)

\* The finalizer registration of the class's create factory.
create_finalizer(cls, w) ==
    IF cls = "Module" THEN Module_create_finalizer(w) ELSE Builder_create_finalizer(w)

\* The create factories: the native create call chosen by `ctx ? .. : ..`,
\* the wrapper constructed around its result, the finalizer registered.
CreateObj(cls, op, fnIn, fnDefault, ctx, arg) ==
    \E o \in ObjIds, refused \in Marshalled(arg) :
        /\ FreshObj(o)
        /\ \E h \in Handles : heap[h].kind = "free"
        /\ IF refused
           THEN /\ UNCHANGED <<objs, heap, irVars>>
                /\ lastCall' = Call(op, 0, ctx, fnIn, arg, TRUE, Void)
           ELSE LET h == FirstFree(Handles, {g \in Handles : heap[g].kind # "free"})
                IN  /\ heap' = NativeCreate(heap, h, cls, arg)
                    /\ objs' = [objs EXCEPT ![o] = create_finalizer(cls, NewObj(cls, h))]
                    /\ lastCall' = Call(op, o, ctx,
                                        IF Truthy(ctx) THEN fnIn ELSE fnDefault,
                                        arg, FALSE, Wrap(cls, h))
                    /\ UNCHANGED irVars

\* Module.create(name, ctx?)
Module_create(ctx) ==
    CreateObj("Module", "Module.create", "LLVMModuleCreateWithNameInContext",
              "LLVMModuleCreateWithName", ctx,
              IF Truthy(ctx) THEN Module_create_ctxArg(ctx) ELSE Undefined)

\* Builder.create(ctx?)
Builder_create(ctx) ==
    CreateObj("Builder", "Builder.create", "LLVMCreateBuilderInContext",
              "LLVMCreateBuilder", ctx,
              IF Truthy(ctx) THEN Builder_create_ctxArg(ctx) ELSE Undefined)

\* The body of free(): LLVMDispose*(this.ref); this.ref = null.
FreedKeepsRef(w) ==
    [w EXCEPT !.disposes = IF w.ref # Null THEN @ + 1 ELSE @]

Freed(w) ==
    [w EXCEPT !.ref = Null,
              !.disposes = IF w.ref # Null THEN @ + 1 ELSE @]

FreeCall(o, explicit) ==
    /\ IF objs[o].cls = "Module" /\ objs[o].ref # Null
       THEN /\ fnTab' = DisposedFns(fnTab, objs[o].ref)
            /\ blkTab' = DisposedBlks(fnTab, blkTab, objs[o].ref)
            /\ heap' = Orphaned(NativeDispose(heap, objs[o].ref), blkTab')
            /\ runs' = runs
       ELSE /\ UNCHANGED <<fnTab, blkTab>>
            /\ heap' = NativeDispose(heap, objs[o].ref)
            /\ runs' = IF objs[o].ref # Null
                        THEN [runs EXCEPT ![objs[o].ref] = NoRun] ELSE runs
    /\ objs' = [objs EXCEPT ![o] =
                   [Freed(objs[o]) EXCEPT !.freed = IF explicit THEN TRUE ELSE @,
                                          !.finalized = IF explicit THEN @ ELSE TRUE]]
    /\ lastCall' = Call(objs[o].cls \o ".free", o, Undefined,
                        IF objs[o].cls = "Module" THEN "LLVMDisposeModule"
                                                  ELSE "LLVMDisposeBuilder",
                        Raw(objs[o].ref), FALSE, Void)

\* Module.free(), called by the holder of the wrapper.
Module_free(o) ==
    /\ objs[o].cls = "Module" /\ objs[o].held
    /\ FreeCall(o, TRUE)

\* Builder.free(), called by the holder of the wrapper.
Builder_free(o) ==
    /\ objs[o].cls = "Builder" /\ objs[o].held
    /\ FreeCall(o, TRUE)

\* The caller drops its last reference to the wrapper.
DropRef(o) ==
    /\ objs[o].cls # "none" /\ objs[o].held
    /\ objs' = [objs EXCEPT ![o].held = FALSE]
    /\ UNCHANGED <<heap, irVars, lastCall>>

\* The collector reclaims an unreachable wrapper and runs the callback
\* registered for it: `mod.free()` / `builder.free()`.
RunFinalizer(o) ==
    /\ objs[o].cls # "none" /\ ~objs[o].held
    /\ objs[o].registered /\ ~objs[o].finalized
    /\ FreeCall(o, FALSE)

heap0 == [h \in Handles |-> FreeCell]

NoStruct == [live |-> FALSE, elems |-> <<>>, packed |-> FALSE, given |-> <<>>]

NoGen == [st |-> Null, pc |-> "none", count |-> 0, i |-> 0, out |-> <<>>]

TypeInit ==
    /\ structs = [t \in StructIds |-> NoStruct]
    /\ gen = NoGen

TargetInit ==
    /\ x86 = FALSE
    /\ targetLog = <<>>

LifeInit ==
    /\ objs = [o \in ObjIds |-> NoObj]
    /\ heap = [h \in Handles |-> FreeCell]
    /\ lastCall = NoCall
    /\ fnTab = [f \in FnIds |-> NoFn]
    /\ blkTab = [b \in BlkIds |-> NoBlk]
    /\ runs = [h \in Handles |-> NoRun]
    /\ TypeInit /\ TargetInit

LifeNext ==
    /\ \/ \E ctx \in CtxArgs : Module_create(ctx)
       \/ \E ctx \in CtxArgs : Builder_create(ctx)
       \/ \E o \in ObjIds : Module_free(o)
       \/ \E o \in ObjIds : Builder_free(o)
       \/ \E o \in ObjIds : DropRef(o)
       \/ \E o \in ObjIds : RunFinalizer(o)
    /\ UNCHANGED <<typeVars, targetVars>>

SpecLife == LifeInit /\ [][LifeNext]_vars

\* The collector is fair: an unreachable wrapper whose finalizer is pending
\* is eventually collected.
SpecLifeFair ==
    /\ SpecLife
    /\ \A o \in ObjIds :
          WF_vars(RunFinalizer(o) /\ UNCHANGED <<typeVars, targetVars>>)

\* ------------------------------------------------- Module operations
\* The handle in the wrapper's ref field is one of a living resource.
RefOk(o) == objs[o].ref # Null

NativeStatus(ok) == IF ok THEN "ok" ELSE "undefined"

\* What a native call outside its contract may hand back.
UndefinedRefs == {Null, 1}

\* What a native call outside its contract may hand back (r), or nothing to
\* choose when the call is within it.
Outcomes(ok) == IF ok THEN {Null} ELSE UndefinedRefs

FunctionTypes == {Wrap("FunctionType", t) : t \in FnTypeRefs}

\* The caller holds the wrapper and calls a method on it.
Holds(o, cls) == objs[o].cls = cls /\ objs[o].held

\* Module.toString(): LLVMPrintModuleToString(this.ref)
Module_toString(o) ==
    /\ Holds(o, "Module")
    /\ lastCall' = [Call("Module.toString", o, Undefined, "LLVMPrintModuleToString",
                         Raw(objs[o].ref), FALSE, Wrap("string", objs[o].ref))
                    EXCEPT !.native = NativeStatus(RefOk(o))]
    /\ UNCHANGED <<objs, heap, irVars>>

\* The native half of addFunction: LLVMAddFunction(this.ref, name, type.ref)
\* makes function f, or, on a null module, does what it will and returns r.
AddFunction(o, name, type, r, call) ==
    IF RefOk(o)
    THEN /\ FnIds \ {g \in FnIds : fnTab[g].live} # {}
         /\ LET f == FirstFree(FnIds, {g \in FnIds : fnTab[g].live})
            IN  /\ fnTab' = LLVMAddFunction(fnTab, f, objs[o].ref, name, type.ref)
                /\ lastCall' = [call EXCEPT !.result = Wrap("Function", f),
                                            !.added = TRUE]
    ELSE /\ fnTab' = fnTab
         /\ lastCall' = [call EXCEPT !.result = Wrap("Function", r), !.added = TRUE,
                                     !.native = "undefined"]

\* Module.addFunction(name, type)
Module_addFunction(o, name, type) ==
    /\ Holds(o, "Module")
    /\ \E r \in Outcomes(RefOk(o)) :
          AddFunction(o, name, type, r,
                      [Call("Module.addFunction", o, Undefined, "LLVMAddFunction",
                            Raw(objs[o].ref), FALSE, Void)
                       EXCEPT !.name = name, !.type = type.ref])
    /\ UNCHANGED <<objs, heap, blkTab, runs>>

\* The handle Module.getFunction(name) wraps: LLVMGetNamedFunction(this.ref, name).
GetFunctionRef_miss(o, name, r) == Null

GetFunctionRef(o, name, r) ==
    IF RefOk(o) THEN LLVMGetNamedFunction(fnTab, objs[o].ref, name) ELSE r

\* Module.getFunction(name)
Module_getFunction(o, name) ==
    /\ Holds(o, "Module")
    /\ \E r \in Outcomes(RefOk(o)) :
          lastCall' = [Call("Module.getFunction", o, Undefined, "LLVMGetNamedFunction",
                            Raw(objs[o].ref), FALSE,
                            Wrap("Function", GetFunctionRef(o, name, r)))
                       EXCEPT !.name = name, !.native = NativeStatus(RefOk(o))]
    /\ UNCHANGED <<objs, heap, irVars>>

\* getOrInsertFunction line 156: `func.ref.isNull()`.
Module_getOrInsertFunction_always(func) == TRUE

Module_getOrInsertFunction_isNull(func) == func.ref = Null

\* The call repeats the one before it.
Repeats(op, o, name, type) ==
    /\ lastCall.op = op /\ lastCall.obj = o
    /\ lastCall.name = name /\ lastCall.type = type.ref

\* Module.getOrInsertFunction(name, type)
Module_getOrInsertFunction(o, name, type) ==
    /\ Holds(o, "Module")
    /\ \E r1 \in Outcomes(RefOk(o)) :
          LET func == Wrap("Function", GetFunctionRef(o, name, r1))
              call == [Call("Module.getOrInsertFunction", o, Undefined,
                            "LLVMGetNamedFunction", Raw(objs[o].ref), FALSE, func)
                       EXCEPT !.name = name, !.type = type.ref,
                              !.native = NativeStatus(RefOk(o)),
                              !.again = Repeats("Module.getOrInsertFunction", o, name, type),
                              !.prevRef = IF Repeats("Module.getOrInsertFunction", o, name, type)
                                          THEN lastCall.result.ref ELSE Null]
          IN  IF Module_getOrInsertFunction_isNull(func)
              THEN \E r2 \in Outcomes(RefOk(o)) :
                       AddFunction(o, name, type, r2, call)
              ELSE /\ fnTab' = fnTab
                   /\ lastCall' = call
    /\ UNCHANGED <<objs, heap, blkTab, runs>>

\* ---------------------------------------------- Function operations
LiveFns == {f \in FnIds : fnTab[f].live}

LiveBlks == {b \in BlkIds : blkTab[b].live}

\* Function.appendBasicBlock(name): LLVMAppendBasicBlock(this.ref, name)
Function_appendBasicBlock(f) ==
    /\ f \in LiveFns
    /\ BlkIds \ LiveBlks # {}
    /\ \E b \in {FirstFree(BlkIds, LiveBlks)} :
          /\ fnTab' = LLVMAppendBasicBlock_fns(fnTab, f, b)
          /\ blkTab' = LLVMAppendBasicBlock_blks(blkTab, f, b)
          /\ lastCall' = Call("Function.appendBasicBlock", 0, Wrap("Function", f),
                              "LLVMAppendBasicBlock", Raw(f), FALSE,
                              Wrap("BasicBlock", b))
    /\ UNCHANGED <<objs, heap, runs>>

\* Function.deleteFromParent(): LLVMDeleteFunction(this.ref)
Function_deleteFromParent(f) ==
    /\ f \in LiveFns
    /\ fnTab' = LLVMDeleteFunction_fns(fnTab, f)
    /\ blkTab' = LLVMDeleteFunction_blks(blkTab, f)
    /\ heap' = Orphaned(heap, blkTab')
    /\ lastCall' = Call("Function.deleteFromParent", 0, Wrap("Function", f),
                        "LLVMDeleteFunction", Raw(f), FALSE, Void)
    /\ UNCHANGED <<objs, runs>>

\* --------------------------------------------- Builder operations
\* The block as it is when the builder is positioned in it before its k-th
\* instruction, with nothing built since.
NewRun(b, k) == [blk |-> b, base |-> blkTab[b].instrs, at |-> k, built |-> <<>>]

\* A positionAtEnd that makes the native call only for a builder that has
\* no position yet: a positioned builder stays where it was.
Builder_positionAtEnd_kept(o, bb) ==
    /\ Holds(o, "Builder")
    /\ bb.ref \in LiveBlks
    /\ RefOk(o)
    /\ heap' = IF heap[objs[o].ref].blk = Null
               THEN LLVMPositionBuilderAtEnd(heap, objs[o].ref, bb.ref)
               ELSE heap
    /\ runs' = [runs EXCEPT ![objs[o].ref] =
                   NewRun(bb.ref, Len(blkTab[bb.ref].instrs) + 1)]
    /\ lastCall' = Call("Builder.positionAtEnd", o, bb, "LLVMPositionBuilderAtEnd",
                        Raw(objs[o].ref), FALSE, Void)
    /\ UNCHANGED <<objs, fnTab, blkTab>>

\* Builder.positionAtEnd(bb): LLVMPositionBuilderAtEnd(this.ref, bb.ref)
Builder_positionAtEnd(o, bb) ==
    /\ Holds(o, "Builder")
    /\ bb.ref \in LiveBlks
    /\ IF RefOk(o)
       THEN /\ heap' = LLVMPositionBuilderAtEnd(heap, objs[o].ref, bb.ref)
            /\ runs' = [runs EXCEPT ![objs[o].ref] =
                           NewRun(bb.ref, Len(blkTab[bb.ref].instrs) + 1)]
       ELSE UNCHANGED <<heap, runs>>
    /\ lastCall' = [Call("Builder.positionAtEnd", o, bb, "LLVMPositionBuilderAtEnd",
                         Raw(objs[o].ref), FALSE, Void)
                    EXCEPT !.native = NativeStatus(RefOk(o))]
    /\ UNCHANGED <<objs, fnTab, blkTab>>

\* Builder.positionBefore(instr): LLVMPositionBuilderBefore(this.ref, instr.ref)
Builder_positionBefore(o, instr) ==
    /\ Holds(o, "Builder")
    /\ instr.ref \in LiveInstrs(blkTab)
    /\ IF RefOk(o)
       THEN /\ heap' = LLVMPositionBuilderBefore(heap, blkTab, objs[o].ref, instr.ref)
            /\ runs' = [runs EXCEPT ![objs[o].ref] =
                           NewRun(BlockOf(blkTab, instr.ref),
                                  IndexOf(blkTab[BlockOf(blkTab, instr.ref)].instrs,
                                          instr.ref))]
       ELSE UNCHANGED <<heap, runs>>
    /\ lastCall' = [Call("Builder.positionBefore", o, instr, "LLVMPositionBuilderBefore",
                         Raw(objs[o].ref), FALSE, Void)
                    EXCEPT !.native = NativeStatus(RefOk(o))]
    /\ UNCHANGED <<objs, fnTab, blkTab>>

\* Builder.positionAfter(bb, instr): LLVMPositionBuilder(this.ref, bb.ref, instr.ref),
\* called with an instruction of bb.
Builder_positionAfter(o, bb, instr) ==
    /\ Holds(o, "Builder")
    /\ bb.ref \in LiveBlks
    /\ instr.ref \in Range(blkTab[bb.ref].instrs)
    /\ IF RefOk(o)
       THEN /\ heap' = LLVMPositionBuilder(heap, blkTab, objs[o].ref, bb.ref, instr.ref)
            /\ runs' = [runs EXCEPT ![objs[o].ref] =
                           NewRun(bb.ref, IndexOf(blkTab[bb.ref].instrs, instr.ref))]
       ELSE UNCHANGED <<heap, runs>>
    /\ lastCall' = [Call("Builder.positionAfter", o, <<bb, instr>>, "LLVMPositionBuilder",
                         Raw(objs[o].ref), FALSE, Void)
                    EXCEPT !.native = NativeStatus(RefOk(o))]
    /\ UNCHANGED <<objs, fnTab, blkTab>>

\* Builder.getInsertBlock(): LLVMGetInsertBlock(this.ref)
Builder_getInsertBlock(o) ==
    /\ Holds(o, "Builder")
    /\ \E r \in Outcomes(RefOk(o) /\ ~heap[objs[o].ref].dead) :
          lastCall' = [Call("Builder.getInsertBlock", o, Undefined, "LLVMGetInsertBlock",
                            Raw(objs[o].ref), FALSE,
                            Wrap("BasicBlock",
                                 IF RefOk(o) /\ ~heap[objs[o].ref].dead
                                 THEN LLVMGetInsertBlock(heap, objs[o].ref) ELSE r))
                       EXCEPT !.native = NativeStatus(RefOk(o) /\ ~heap[objs[o].ref].dead)]
    /\ UNCHANGED <<objs, heap, irVars>>

\* The build methods that end in `return new Value(vref)`.
WrappedBuilds ==
    {"Call", "Alloca", "Load", "Store", "StructGEP", "SIToFP", "FPToSI", "BitCast",
     "InsertValue", "Add", "FAdd", "Sub", "FSub", "Mul", "FMul", "Neg", "FNeg"}

\* `return new Value(vref)`
Builder_build_result(vref) == Wrap("Value", vref)

\* buildRet: `return LLVM.LLVMBuildRet(this.ref, arg.ref)`
Builder_buildRet_result(vref) == Raw(vref)

\* The return statement of build<kind>.
Builder_result(kind, vref) ==
    IF kind \in WrappedBuilds THEN Builder_build_result(vref)
    ELSE Builder_buildRet_result(vref)

\* The builder's handle is one of a living builder that is positioned.
CanBuild(o) == RefOk(o) /\ Positioned(heap, blkTab, objs[o].ref)

\* NoRun with one more call counted.
Counted(run, vref) == [run EXCEPT !.built = Append(@, vref)]

\* A build method: vref = LLVM.LLVMBuild<kind>(this.ref, ...), which puts a
\* new instruction in at the insertion point and returns it, or, with a null
\* builder or one that is not positioned, does what it will and returns r;
\* then the method's return statement.
Build(o, kind, r) ==
    IF CanBuild(o)
    THEN /\ InstrIds \ LiveInstrs(blkTab) # {}
         /\ LET i == FirstFree(InstrIds, LiveInstrs(blkTab))
            IN  /\ blkTab' = LLVMBuild(heap, blkTab, objs[o].ref, i)
                /\ runs' = [runs EXCEPT ![objs[o].ref] = Counted(@, i)]
                /\ lastCall' = [Call("Builder.build" \o kind, o, Undefined,
                                     "LLVMBuild" \o kind, Raw(objs[o].ref), FALSE,
                                     Builder_result(kind, i))
                                EXCEPT !.vref = i]
    ELSE /\ UNCHANGED <<blkTab, runs>>
         /\ lastCall' = [Call("Builder.build" \o kind, o, Undefined,
                              "LLVMBuild" \o kind, Raw(objs[o].ref), FALSE,
                              Builder_result(kind, r))
                         EXCEPT !.native = "undefined", !.vref = r]

\* A build method that returns a Value without having called the native
\* build function.
Builder_build_dropped(o, kind) ==
    /\ Holds(o, "Builder")
    /\ CanBuild(o)
    /\ runs' = [runs EXCEPT ![objs[o].ref] = Counted(@, Null)]
    /\ lastCall' = Call("Builder.build" \o kind, o, Undefined, "none",
                        Raw(objs[o].ref), FALSE, Builder_build_result(Null))
    /\ UNCHANGED <<objs, heap, fnTab, blkTab>>

\* Builder.buildCall ... Builder.buildFNeg
Builder_build(o, kind) ==
    /\ Holds(o, "Builder")
    /\ \E r \in Outcomes(CanBuild(o)) : Build(o, kind, r)
    /\ UNCHANGED <<objs, heap, fnTab>>

\* Builder.buildRet(arg)
Builder_buildRet(o) ==
    /\ Holds(o, "Builder")
    /\ \E r \in Outcomes(CanBuild(o)) : Build(o, "Ret", r)
    /\ UNCHANGED <<objs, heap, fnTab>>

\* A module made by Module.create(name) in the default context.
FnInit ==
    /\ objs = [o \in ObjIds |->
                  IF o = 1 THEN Module_create_finalizer(NewObj("Module", 1)) ELSE NoObj]
    /\ heap = NativeCreate(heap0, 1, "Module", Undefined)
    /\ lastCall = NoCall
    /\ fnTab = [f \in FnIds |-> NoFn]
    /\ blkTab = [b \in BlkIds |-> NoBlk]
    /\ runs = [h \in Handles |-> NoRun]
    /\ TypeInit /\ TargetInit

FnNext ==
    /\ \/ \E o \in ObjIds : Module_free(o)
       \/ \E o \in ObjIds : Module_toString(o)
       \/ \E o \in ObjIds, n \in CallerNames, t \in FunctionTypes : Module_addFunction(o, n, t)
       \/ \E o \in ObjIds, n \in CallerNames : Module_getFunction(o, n)
       \/ \E o \in ObjIds, n \in CallerNames, t \in FunctionTypes :
             Module_getOrInsertFunction(o, n, t)
       \/ \E f \in FnIds : Function_deleteFromParent(f)
    /\ UNCHANGED <<typeVars, targetVars>>

SpecFn == FnInit /\ [][FnNext]_vars

\* A module and a builder, each made by its create() in the default context,
\* and a function f added to the module.
BuildInit ==
    /\ objs = [o \in ObjIds |->
                  IF o = 1 THEN Module_create_finalizer(NewObj("Module", 1))
                  ELSE IF o = 2 THEN Builder_create_finalizer(NewObj("Builder", 2))
                  ELSE NoObj]
    /\ heap = NativeCreate(NativeCreate(heap0, 1, "Module", Undefined),
                           2, "Builder", Undefined)
    /\ lastCall = NoCall
    /\ fnTab = LLVMAddFunction([f \in FnIds |-> NoFn], 1, 1, Name("f", 0), "i32(i32)")
    /\ blkTab = [b \in BlkIds |-> NoBlk]
    /\ runs = [h \in Handles |-> NoRun]
    /\ TypeInit /\ TargetInit

BuildNext ==
    /\ \/ \E o \in ObjIds : Module_free(o)
       \/ \E o \in ObjIds : Builder_free(o)
       \/ \E o \in ObjIds : Module_toString(o)
       \/ \E f \in FnIds : Function_appendBasicBlock(f)
       \/ \E f \in FnIds : Function_deleteFromParent(f)
       \/ \E o \in ObjIds, b \in BlkIds : Builder_positionAtEnd(o, Wrap("BasicBlock", b))
       \/ \E o \in ObjIds, i \in InstrIds : Builder_positionBefore(o, Wrap("Value", i))
       \/ \E o \in ObjIds, b \in BlkIds, i \in InstrIds :
             Builder_positionAfter(o, Wrap("BasicBlock", b), Wrap("Value", i))
       \/ \E o \in ObjIds : Builder_getInsertBlock(o)
       \/ \E o \in ObjIds, k \in WrappedBuilds : Builder_build(o, k)
       \/ \E o \in ObjIds : Builder_buildRet(o)
    /\ UNCHANGED <<typeVars, targetVars>>

SpecBuild == BuildInit /\ [][BuildNext]_vars

\* ------------------------------------------------------- StructType
Types == {Wrap("Type", t) : t \in TypeRefs}

\* The arrays of Type wrappers the caller passes.
TypeArrays == UNION {[1..n -> Types] : n \in 0..MaxElems}

\* genPtrArray lines 50-54: `ptrArray[i] = array[i].ref; ++i` for each
\* element of array.
RECURSIVE genPtrArrayLoop(_, _, _)
genPtrArrayLoop(array, ptrArray, i) ==
    IF i >= Len(array) THEN ptrArray
    ELSE genPtrArrayLoop(array, [ptrArray EXCEPT ![i + 1] = array[i + 1].ref], i + 1)

\* genPtrArray with `array[0].ref` in the loop.
genPtrArray_first(array) == [k \in 1..Len(array) |-> array[1].ref]

\* genPtrArray(array): new PointerArray(array.length), filled by the loop.
genPtrArray(array) == genPtrArrayLoop(array, [k \in 1..Len(array) |-> Null], 0)

\* LLVMStructType(elems, count, packed): the struct type of the first count
\* element types of the array.
LLVMStructType(ptrArray, count, packed) ==
    [live |-> TRUE, elems |-> SubSeq(ptrArray, 1, count), packed |-> packed,
     given |-> <<>>]

\* LLVMCountStructElementTypes(s)
LLVMCountStructElementTypes(st, s) == Len(st[s].elems)

\* LLVMStructGetTypeAtIndex(s, index), index counted from 0
LLVMStructGetTypeAtIndex(st, s, index) == st[s].elems[index + 1]

LiveStructs == {t \in StructIds : structs[t].live}

\* StructType.create(elementTypes, packed); `given` keeps the array passed.
StructType_create(elementTypes, packed) ==
    /\ StructIds \ LiveStructs # {}
    /\ LET sref == FirstFree(StructIds, LiveStructs)
           ptrs == genPtrArray(elementTypes)
       IN  structs' = [structs EXCEPT ![sref] =
                          [LLVMStructType(ptrs, Len(elementTypes), packed)
                           EXCEPT !.given = elementTypes]]
    /\ UNCHANGED gen

\* StructType.numStructElements()
numStructElements(s) == LLVMCountStructElementTypes(structs, s)

\* StructType.getTypeAt(index)
getTypeAt(s, index) == Wrap("Type", LLVMStructGetTypeAtIndex(structs, s, index))

\* StructType.types(): a new generator object, its body not yet begun.
StructType_types(s) ==
    /\ s \in LiveStructs
    /\ gen' = [st |-> s, pc |-> "start", count |-> 0, i |-> 0, out |-> <<>>]
    /\ UNCHANGED structs

\* next() on the generator: runs the body of types() to its next yield.
\* `out` keeps what it has yielded.
Generator_next ==
    /\ gen.pc \in {"start", "yielded"}
    /\ LET count == IF gen.pc = "start" THEN numStructElements(gen.st) ELSE gen.count
           i     == IF gen.pc = "start" THEN 0 ELSE gen.i + 1
       IN  gen' = IF i < count
                  THEN [gen EXCEPT !.pc = "yielded", !.count = count, !.i = i,
                                   !.out = Append(@, getTypeAt(gen.st, i))]
                  ELSE [gen EXCEPT !.pc = "done", !.count = count, !.i = i]
    /\ UNCHANGED structs

StructNext ==
    /\ \/ \E a \in TypeArrays, packed \in BOOLEAN : StructType_create(a, packed)
       \/ \E s \in StructIds : StructType_types(s)
       \/ Generator_next
    /\ UNCHANGED <<handleVars, lastCall, targetVars>>

StructInit ==
    /\ objs = [o \in ObjIds |-> NoObj]
    /\ heap = heap0
    /\ lastCall = NoCall
    /\ fnTab = [f \in FnIds |-> NoFn]
    /\ blkTab = [b \in BlkIds |-> NoBlk]
    /\ runs = [h \in Handles |-> NoRun]
    /\ TypeInit /\ TargetInit

SpecStruct == StructInit /\ [][StructNext]_vars

\* ------------------------------------------------------------ Target
Triples == {"x86_64-pc-linux-gnu", "i686-pc-linux-gnu", "not-a-real-triple"}

\* The native targets of the X86 backend, by handle.
TargetOf(triple) ==
    IF triple = "x86_64-pc-linux-gnu" THEN 2
    ELSE IF triple = "i686-pc-linux-gnu" THEN 1
    ELSE Null

TargetRefs == {TargetOf(t) : t \in Triples} \ {Null}

\* The library resolves a triple whose backend has been registered.
Resolves(triple, registered) == registered /\ TargetOf(triple) # Null

\* LLVMGetTargetFromTriple(triple, target_ptr, error_ptr): the status it
\* returns and what target_ptr holds afterwards; on failure it leaves
\* target_ptr as it found it.
LLVMGetTargetFromTriple(triple, registered, target_ptr) ==
    IF Resolves(triple, registered)
    THEN [status |-> 0, target_ptr |-> TargetOf(triple)]
    ELSE [status |-> 1, target_ptr |-> target_ptr]

\* initX86Target()
initX86Target ==
    /\ ~x86
    /\ x86' = TRUE
    /\ UNCHANGED targetLog

\* getFromTriple line 805 with the test left out.
Target_getFromTriple_noTest(status) == FALSE

\* getFromTriple line 805: `if (LLVM.LLVMGetTargetFromTriple(...))`.
Target_getFromTriple_failed(status) == status # 0

\* Target.getFromTriple(triple); fresh is what ref.alloc(voidp) holds before
\* anything is written to it.
Target_getFromTriple(triple, fresh) ==
    /\ Len(targetLog) < MaxCalls
    /\ LET native == LLVMGetTargetFromTriple(triple, x86, fresh)
           thrown == Target_getFromTriple_failed(native.status)
       IN  targetLog' = Append(targetLog,
               [triple |-> triple, registered |-> x86, status |-> native.status,
                target_ptr |-> native.target_ptr, thrown |-> thrown,
                result |-> IF thrown THEN Void
                           ELSE Wrap("Target", native.target_ptr)])
    /\ UNCHANGED x86

TargetNext ==
    /\ \/ initX86Target
       \/ \E t \in Triples, fresh \in {Null} \cup TargetRefs : Target_getFromTriple(t, fresh)
    /\ UNCHANGED <<handleVars, lastCall, typeVars>>

SpecTarget == StructInit /\ [][TargetNext]_vars

\* ------------------------------------------------------------ properties
Created == {o \in ObjIds : objs[o].cls # "none"}

\* C1: for every Module and Builder made by create(), over any sequence of
\* free() calls and the finalizer, the native dispose function is invoked on
\* the wrapper's native resource at most once, and exactly once by the time
\* the finalizer has run; a live native resource is the one of exactly one
\* wrapper that has not been freed.
C1_DisposedExactlyOnce ==
    /\ \A o \in Created :
          /\ objs[o].disposes <= 1
          /\ objs[o].finalized => objs[o].disposes = 1
          /\ objs[o].disposes = 0 =>
                objs[o].ref = objs[o].own /\ heap[objs[o].own].kind = objs[o].cls
    /\ \A h \in Handles :
          heap[h].kind # "free" =>
              Cardinality({o \in Created : objs[o].ref = h}) = 1

\* free() first, the finalizer afterwards: one disposal of the resource.
C1_Witness ==
    \E o \in Created :
        objs[o].freed /\ objs[o].finalized /\ objs[o].disposes = 1

\* C2: a Module or Builder made by create() that is never freed and that the
\* caller no longer references is eventually finalized and its native
\* resource disposed.
C2_EventuallyReclaimed ==
    \A o \in ObjIds :
        (objs[o].cls # "none" /\ ~objs[o].held /\ ~objs[o].freed)
            ~> (objs[o].finalized /\ objs[o].disposes = 1
                /\ objs[o].ref = Null)

\* A wrapper never freed by hand, reclaimed by its finalizer.
C2_Witness ==
    \E o \in Created :
        ~objs[o].freed /\ objs[o].finalized /\ objs[o].disposes = 1

InContextFns == {"LLVMModuleCreateWithNameInContext", "LLVMCreateBuilderInContext"}

DefaultFns == {"LLVMModuleCreateWithName", "LLVMCreateBuilder"}

\* C9: create with a Context hands the native create-in-context call the
\* context's handle (ctx.ref); create without one uses the native
\* default-context call.
C9_CreateInContextReceivesHandle ==
    lastCall.op \in {"Module.create", "Builder.create"} =>
        IF Truthy(lastCall.input)
        THEN lastCall.fn \in InContextFns /\ lastCall.arg = Raw(lastCall.input.ref)
        ELSE lastCall.fn \in DefaultFns

\* C3 as stated: after free() the handle is null, and every further
\* operation on the disposed wrapper fails with an explicit error instead of
\* passing the null handle to the native library.
C3_DisposedFailsFast ==
    /\ \A o \in Created : objs[o].freed => objs[o].ref = Null
    /\ lastCall.wasNull => lastCall.thrown

\* C3, amended: after free() the handle is null, and every further operation
\* on the disposed wrapper, a second free() included, raises nothing and
\* passes the null handle on to the native function.
C3_DisposedForwardsNull ==
    /\ \A o \in Created : (objs[o].freed \/ objs[o].finalized) => objs[o].ref = Null
    /\ lastCall.wasNull =>
          /\ ~lastCall.thrown
          /\ lastCall.fn # "none"
          /\ lastCall.arg = Raw(Null)

\* A build call made on a freed Builder.
C3_Witness ==
    /\ lastCall.wasNull
    /\ lastCall.op = "Builder.buildAdd"
    /\ objs[lastCall.obj].freed

\* The module a Module method was called on.
CallModule == objs[lastCall.obj].ref

\* C5: getOrInsertFunction(name, type) called twice in a row with the same
\* name and type returns the same native function both times, the second
\* call adds no declaration, and the module holds exactly one function of
\* that name afterwards.
C5_GetOrInsertTwice ==
    (/\ lastCall.op = "Module.getOrInsertFunction"
     /\ lastCall.again
     /\ lastCall.native = "ok") =>
        /\ lastCall.result.ref = lastCall.prevRef
        /\ lastCall.result.ref # Null
        /\ ~lastCall.added
        /\ Named(fnTab, CallModule, lastCall.name) = {lastCall.result.ref}

\* The second of two equal getOrInsertFunction calls has returned.
C5_Witness ==
    /\ lastCall.op = "Module.getOrInsertFunction"
    /\ lastCall.again
    /\ lastCall.native = "ok"
    /\ lastCall.result.ref = lastCall.prevRef

\* One getOrInsertFunction call on a living module: it adds a function only
\* when none has the name; otherwise it returns the one that has it, whatever
\* its type, and leaves the module as it was.
C6_Step ==
    (/\ lastCall'.op = "Module.getOrInsertFunction"
     /\ lastCall' # lastCall
     /\ lastCall'.native = "ok") =>
        LET m  == objs[lastCall'.obj].ref
            ex == Named(fnTab, m, lastCall'.name)
        IN  /\ ~lastCall'.thrown
            /\ lastCall'.added <=> ex = {}
            /\ ex # {} => /\ fnTab' = fnTab
                          /\ lastCall'.result.ref \in ex
            /\ ex = {} => /\ lastCall'.result.ref \notin FnsOf(fnTab, m)
                          /\ FnsOf(fnTab', m) = FnsOf(fnTab, m) \cup {lastCall'.result.ref}
                          /\ fnTab'[lastCall'.result.ref].name = lastCall'.name
                          /\ fnTab'[lastCall'.result.ref].type = lastCall'.type

\* C6: getOrInsertFunction calls addFunction only when no function of the
\* name exists; when one does it returns it unchanged, even if its type is
\* not the one asked for, adds nothing and raises nothing.
C6_InsertOnlyIfAbsent == [][C6_Step]_vars

\* An existing function returned for a request of another type.
C6_Witness ==
    /\ lastCall.op = "Module.getOrInsertFunction"
    /\ lastCall.native = "ok"
    /\ ~lastCall.added
    /\ lastCall.result.ref \in FnIds
    /\ fnTab[lastCall.result.ref].type # lastCall.type

Builders == {h \in Handles : heap[h].kind = "Builder"}

\* C7: for a builder positioned in a block, after N build calls with no
\* positioning call in between the block has exactly N more instructions,
\* the new ones stand together at the insertion point in the order of the
\* calls, and the ones that were there keep their order.
C7_BuildsInCallOrder ==
    \A h \in Builders :
        Positioned(heap, blkTab, h) =>
            LET run == runs[h]
                cur == blkTab[heap[h].blk].instrs
            IN  /\ run.blk = heap[h].blk
                /\ Len(cur) = Len(run.base) + Len(run.built)
                /\ cur = SubSeq(run.base, 1, run.at - 1) \o run.built
                            \o SubSeq(run.base, run.at, Len(run.base))
                /\ Range(run.built) \cap Range(run.base) = {}

\* Two instructions built one after the other in front of an older one.
C7_Witness ==
    \E h \in Builders :
        /\ Positioned(heap, blkTab, h)
        /\ Len(runs[h].built) >= 2
        /\ runs[h].at <= Len(runs[h].base)

BuildOps == {"Builder.build" \o k : k \in WrappedBuilds \cup {"Ret"}}

\* C8: every build method returns a Value wrapper whose ref is the handle of
\* the instruction it has just inserted, never the bare handle.
C8_BuildReturnsValue ==
    (lastCall.op \in BuildOps /\ lastCall.native = "ok") =>
        /\ lastCall.result = Wrap("Value", lastCall.vref)
        /\ lastCall.vref \in LiveInstrs(blkTab)

\* The builder is positioned, and its latest positioning call put it at the
\* end of a block.
AtEnd(h) ==
    /\ Positioned(heap, blkTab, h)
    /\ runs[h].at = Len(runs[h].base) + 1

\* One call on a builder that positionAtEnd has put at the end of block b2:
\* a build call appends its instruction to b2 and leaves every other block
\* as it was; getInsertBlock returns a wrapper of b2's handle.
C11_Step ==
    \A o \in Created :
        (/\ lastCall' # lastCall
         /\ lastCall'.obj = o
         /\ lastCall'.native = "ok"
         /\ objs[o].ref \in Builders
         /\ AtEnd(objs[o].ref)) =>
            LET b2 == runs[objs[o].ref].blk
            IN  /\ lastCall'.op \in BuildOps =>
                      /\ blkTab'[b2].instrs = Append(blkTab[b2].instrs, lastCall'.vref)
                      /\ \A b \in BlkIds \ {b2} : blkTab'[b] = blkTab[b]
                /\ lastCall'.op = "Builder.getInsertBlock" =>
                      /\ lastCall'.result = Wrap("BasicBlock", b2)
                      /\ blkTab' = blkTab

\* C11: a builder has one insertion position: after positionAtEnd(b1) and
\* then positionAtEnd(b2), b1 # b2, every later build call puts its
\* instruction at the end of b2 only, b1 and every other block stay as they
\* were, and getInsertBlock() returns a wrapper of b2's handle.
C11_SinglePosition == [][C11_Step]_vars

\* The builder has built in b1, was then put at the end of the empty block
\* b2, has built there, and getInsertBlock has answered b2.
C11_Witness ==
    \E h \in Builders, b1 \in BlkIds :
        /\ AtEnd(h)
        /\ b1 # runs[h].blk
        /\ blkTab[b1].live /\ blkTab[b1].instrs # <<>>
        /\ runs[h].base = <<>> /\ runs[h].built # <<>>
        /\ blkTab[runs[h].blk].instrs = runs[h].built
        /\ lastCall.op = "Builder.getInsertBlock"
        /\ lastCall.result = Wrap("BasicBlock", runs[h].blk)

\* The instruction sequence of the block that holds instruction i.
SeqOf(bt, i) == bt[BlockOf(bt, i)].instrs

\* A build call that directly follows a positioning call on the same
\* builder: after positionAfter(block, instr) the new instruction stands
\* directly behind instr in block, after positionBefore(instr) directly in
\* front of it.
C12_Step ==
    (/\ lastCall.op \in {"Builder.positionAfter", "Builder.positionBefore"}
     /\ lastCall.native = "ok"
     /\ lastCall' # lastCall
     /\ lastCall'.obj = lastCall.obj
     /\ lastCall'.op \in BuildOps
     /\ lastCall'.native = "ok") =>
        LET instr == IF lastCall.op = "Builder.positionAfter"
                     THEN lastCall.input[2].ref ELSE lastCall.input.ref
            seq   == SeqOf(blkTab', instr)
            new   == lastCall'.vref
        IN  /\ new \in Range(seq)
            /\ lastCall.op = "Builder.positionAfter" =>
                  /\ seq = blkTab'[lastCall.input[1].ref].instrs
                  /\ IndexOf(seq, new) = IndexOf(seq, instr) + 1
            /\ lastCall.op = "Builder.positionBefore" =>
                  IndexOf(seq, new) = IndexOf(seq, instr) - 1

\* C12: after positionAfter(block, instr), instr an instruction of block, the
\* next build call puts its instruction directly behind instr in block;
\* after positionBefore(instr) the new instruction stands directly in front
\* of instr.
C12_PositionAfterInsertsAfter == [][C12_Step]_vars

\* C4: getFromTriple on a triple the library cannot resolve (a non-zero
\* native status) raises and returns no Target; a Target is returned only on
\* status zero, and wraps the handle the native call wrote to target_ptr.
C4_UnresolvedTripleRaises ==
    \A k \in 1..Len(targetLog) :
        LET e == targetLog[k]
        IN  /\ ~Resolves(e.triple, e.registered) => e.status # 0
            /\ e.status # 0 => e.thrown /\ e.result = Void
            /\ e.result # Void =>
                  /\ e.status = 0 /\ ~e.thrown
                  /\ e.result = Wrap("Target", e.target_ptr)
                  /\ e.target_ptr = TargetOf(e.triple)

\* A lookup that failed and one that succeeded.
C4_Witness ==
    /\ \E k \in 1..Len(targetLog) :
          targetLog[k].triple = "not-a-real-triple" /\ targetLog[k].thrown
    /\ \E k \in 1..Len(targetLog) : targetLog[k].result.tag = "Target"

\* C10: for a struct made by StructType.create(elementTypes, packed),
\* numStructElements() is elementTypes.length, getTypeAt(i) wraps the handle
\* of elementTypes[i], and types() yields getTypeAt(0), getTypeAt(1), ... in
\* that order, numStructElements() of them in all, each time it is begun.
C10_StructIntrospection ==
    /\ \A s \in LiveStructs :
          /\ numStructElements(s) = Len(structs[s].given)
          /\ \A i \in 0..(Len(structs[s].given) - 1) :
                getTypeAt(s, i) = Wrap("Type", structs[s].given[i + 1].ref)
    /\ gen.pc # "none" =>
          /\ Len(gen.out) <= numStructElements(gen.st)
          /\ \A k \in 1..Len(gen.out) :
                gen.out[k] = Wrap("Type", structs[gen.st].given[k].ref)
          /\ gen.pc = "done" => Len(gen.out) = Len(structs[gen.st].given)

\* A generator that has run to its end over two different element types.
C10_Witness ==
    /\ gen.pc = "done"
    /\ Len(gen.out) >= 2
    /\ gen.out[1] # gen.out[2]

====
